---- MODULE Spec2Model ----
(***************************************************************************)
(* The temporal continuity filter of dataprocess/filter.py:                *)
(* ContinuousFilter.analyze_continuity and the helpers it calls.           *)
(*                                                                         *)
(* files_dict is the {frame index -> annotation file} dictionary handed to *)
(* analyze_continuity; a file is modelled by what has_predictions reads of *)
(* it: whether the path exists, whether it can be read, and the characters *)
(* of its content.  The two nested loops of analyze_continuity are taken   *)
(* one iteration per step.                                                 *)
(*                                                                         *)
(* Spec calls analyze_continuity once on a dictionary.  SpecCalls calls it *)
(* several times on one instance.  SpecExtract applies                     *)
(* extract_frame_number to a file name.  SpecRun runs process_all on a     *)
(* directory of label files, analyze_continuity included, and SpecReport   *)
(* runs it on longer directories.                                          *)
(*                                                                         *)
(* SpecPost is PredictionPostProcessor.process_single_file of              *)
(* dataprocess/postprocess_predictions.py on one label file, and SpecSplit *)
(* is DatasetSplitter.split_patients of dataprocess/move.py.               *)
(***************************************************************************)
EXTENDS Integers, Sequences, FiniteSets, TLC

VARIABLES
    files_dict,               \* the {frame index -> file} dictionary of the call
    continuous_threshold,     \* self.continuous_threshold
    pc,                       \* the position inside analyze_continuity
    frames_with_predictions,  \* the sorted frames that have predictions
    i,                        \* position of start_frame in the outer loop
    j,                        \* position of next_frame in the inner loop
    consecutive_count,        \* length of the run counted from start_frame
    current_frame,            \* last frame of that run
    valid_frames,             \* the set being built, and returned
    warned,                   \* the "fewer than the threshold" warning was printed
    key_order,                \* the insertion order of files_dict's keys
    pred_evals,               \* per frame, how often has_predictions read its file
    returned,                 \* the calls that returned: arguments and result
    call_no,                  \* the number of the call on this instance
    filename,                 \* the argument of extract_frame_number
    extracted,                \* its result, once it returned
    ppc,                      \* the position inside process_all
    label_files,              \* list(self.input_dir.glob('*.txt')), in glob order
    backup_original,          \* self.backup_original
    backup_dir,               \* the files copied to the backup directory
    files_without_number,     \* the label files without a frame number
    files_with_predictions,   \* the frames counted as having predictions
    outputs,                  \* the files written to the output directory
    w,                        \* position of frame_num in the write loop
    kept_count,
    removed_count,
    no_prediction_count,
    segments,                 \* the segment report: (start, end, length) per segment
    spc,                      \* the position inside process_single_file
    label_lines,              \* the lines of the label file it reads
    predictions,              \* what read_yolo_predictions returned
    best_prediction,          \* what filter_predictions returned
    output_lines,             \* the lines of the output file
    counts,                   \* (original_count, filtered_count), once returned
    mpc,                      \* the position inside split_patients
    patient_folders,          \* the sorted list of patient folders
    train_ratio,              \* self.train_ratio
    val_ratio,                \* self.val_ratio
    split_idx,
    announced,                \* the training count the warning states, if printed
    train_patients,
    val_patients

\* The state of one call of analyze_continuity.
callstate == <<pc, frames_with_predictions, i, j, consecutive_count,
               current_frame, valid_frames, warned>>

\* What extract_frame_number reads and writes.
extractvars == <<filename, extracted>>

\* What process_all reads and writes outside analyze_continuity.
runvars == <<ppc, label_files, backup_original, backup_dir,
             files_without_number, files_with_predictions, outputs, w,
             kept_count, removed_count, no_prediction_count, segments>>

\* What PredictionPostProcessor.process_single_file reads and writes.
postvars == <<spc, label_lines, predictions, best_prediction, output_lines,
              counts>>

\* What DatasetSplitter.split_patients reads and writes.
splitvars == <<mpc, patient_folders, train_ratio, val_ratio, split_idx,
               announced, train_patients, val_patients>>

\* What a call of analyze_continuity never touches.
outside == <<key_order, call_no, extractvars, runvars, postvars, splitvars>>

vars == <<files_dict, continuous_threshold, callstate, key_order, pred_evals,
          returned, call_no, extractvars, runvars, postvars, splitvars>>

\* ------------------------------------------------------------------ bounds
\* Frame indices of the enumerated dictionaries are 0..MaxFrame.
MaxFrame == 5
\* Thresholds of the enumerated dictionaries are 1..MaxThreshold.
MaxThreshold == 3
\* Frame indices of the dictionaries with unreadable files are 0..MaxSmallFrame.
MaxSmallFrame == 3
\* Contents of the enumerated files have at most MaxContentLen characters.
MaxContentLen == 2
\* File names given to extract_frame_number have at most MaxNameLen characters.
MaxNameLen == 6
\* Frame indices of the dictionaries of repeated calls are 0..MaxCallFrame.
MaxCallFrame == 2
\* Thresholds of the instances called repeatedly are 1..MaxCallThreshold.
MaxCallThreshold == 2
\* The input directory of process_all holds at most MaxFiles label files.
MaxFiles == 3
\* Thresholds of the instances that run process_all are -1..MaxRunThreshold.
MaxRunThreshold == 2

\* A label file of the post-processor has at most MaxLines lines.
MaxLines == 3
\* Confidences are counted in halves, 0..MaxConfidence: 0.0, 0.5, 1.0, ...
MaxConfidence == 2
\* split_patients gets at most MaxPatients patient folders.
MaxPatients == 4
\* train_ratio and val_ratio are in 0..MaxRatio.
MaxRatio == 5

\* The confidence 1.0 that read_yolo_predictions gives a line without a
\* confidence column, in halves.
DefaultConfidence == 2

\* CONFIG['continuous_threshold'], the threshold of the shipped configuration.
ConfigThreshold == 30

\* ------------------------------------------------------------------- files
\* Characters str.strip() removes, and one it keeps.
Whitespace == {" ", "\n"}

MissingFile == [exists |-> FALSE, readable |-> FALSE, content |-> <<>>]
BlankFile   == [exists |-> TRUE,  readable |-> TRUE,  content |-> <<" ", "\n">>]
BoxFile     == [exists |-> TRUE,  readable |-> TRUE,  content |-> <<"0", "\n">>]

\* A file with a box line that open() or read() fails on.
UnreadableFile == [exists |-> TRUE, readable |-> FALSE, content |-> <<"0", "\n">>]

\* The annotation files a dictionary entry may point at.
Files == {MissingFile, BlankFile, BoxFile}

\* str.lstrip / str.rstrip / str.strip on a sequence of characters.
RECURSIVE LStrip(_)
LStrip(s) ==
    IF s = <<>> THEN <<>>
    ELSE IF Head(s) \in Whitespace THEN LStrip(Tail(s)) ELSE s

RECURSIVE RStrip(_)
RStrip(s) ==
    IF s = <<>> THEN <<>>
    ELSE IF s[Len(s)] \in Whitespace THEN RStrip(SubSeq(s, 1, Len(s) - 1)) ELSE s

Strip(s) == RStrip(LStrip(s))

\* open() or f.read() raises inside the try block.
ReadRaises(label_file) == label_file.exists /\ ~label_file.readable

\* The mutant of has_predictions: the content is not stripped.
has_predictions_nostrip(label_file) ==
    IF ~label_file.exists THEN FALSE
    ELSE IF ReadRaises(label_file) THEN FALSE
    ELSE Len(label_file.content) > 0

\* ContinuousFilter.has_predictions: False for a missing path, False from
\* the except branch when the file cannot be read, otherwise whether the
\* stripped content is not empty.
has_predictions(label_file) ==
    IF ~label_file.exists THEN FALSE
    ELSE IF ReadRaises(label_file) THEN FALSE
    ELSE Len(Strip(label_file.content)) > 0

\* The mutant of Caught: the try block has no except clause.
Caught_none == FALSE

\* The bare "except:" of has_predictions catches whatever the read raises.
Caught == TRUE

\* has_predictions lets an exception out to its caller.
has_predictions_raises(label_file) == ReadRaises(label_file) /\ ~Caught

\* ----------------------------------------------------- extract_frame_number
\* The characters of the enumerated file names.
NameChars == {"0", "1", ".", "t", "x", "T"}

\* \d
Digits == {"0", "1"}

\* re.IGNORECASE: characters are compared in lower case.
Lower(c) == IF c = "T" THEN "t" ELSE c

SameIgnoringCase(a, b) ==
    Len(a) = Len(b) /\ \A n \in 1..Len(a) : Lower(a[n]) = Lower(b[n])

\* int(...) of a run of digits.
RECURSIVE DecimalValue(_)
DecimalValue(ds) ==
    IF ds = <<>> THEN 0
    ELSE 10 * DecimalValue(SubSeq(ds, 1, Len(ds) - 1))
           + (IF ds[Len(ds)] = "1" THEN 1 ELSE 0)

AllDigits(name, from, to) == \A n \in from..to : name[n] \in Digits

\* The five patterns, each "<literal>(\d+)\.txt$": the spellings of the
\* literal that precedes the group (an optional "_" gives two spellings).
Patterns ==
    << {<<>>},
       {<<"_">>},
       {<<"f", "r", "a", "m", "e", "_">>, <<"f", "r", "a", "m", "e">>},
       {<<"i", "m", "g", "_">>, <<"i", "m", "g">>},
       {<<"i", "m", "a", "g", "e", "_">>, <<"i", "m", "a", "g", "e">>} >>

DotTxt == <<".", "t", "x", "t">>

\* The pattern matches name from position p on with the literal spelled
\* lit: the literal, one digit or more, ".txt", the end of the name.
MatchesAt(name, p, lit) ==
    LET first == p + Len(lit)
        last  == Len(name) - Len(DotTxt)
    IN  /\ first <= last
        /\ SameIgnoringCase(SubSeq(name, p, first - 1), lit)
        /\ AllDigits(name, first, last)
        /\ SameIgnoringCase(SubSeq(name, last + 1, Len(name)), DotTxt)

\* The positions where re.search can match pattern n in name.
MatchStarts(name, n) ==
    {p \in 1..Len(name) : \E lit \in Patterns[n] : MatchesAt(name, p, lit)}

\* match.group(1) of re.search(pattern n, name): the match that starts
\* leftmost.
Group(name, n) ==
    LET p   == CHOOSE q \in MatchStarts(name, n) :
                   \A r \in MatchStarts(name, n) : q <= r
        lit == CHOOSE l \in Patterns[n] : MatchesAt(name, p, l)
    IN  SubSeq(name, p + Len(lit), Len(name) - Len(DotTxt))

\* numbers[-1] of re.findall(r'\d+', name): the last maximal run of digits.
LastNumber(name) ==
    LET last  == CHOOSE e \in 1..Len(name) :
                     /\ name[e] \in Digits
                     /\ \A n \in (e + 1)..Len(name) : name[n] \notin Digits
        first == CHOOSE b \in 1..last :
                     /\ AllDigits(name, b, last)
                     /\ (b = 1 \/ name[b - 1] \notin Digits)
    IN  SubSeq(name, first, last)

\* The mutant of FallbackNumber: numbers[0], the first run of digits.
FallbackNumber_first(name) ==
    LET first == CHOOSE b \in 1..Len(name) :
                     /\ name[b] \in Digits
                     /\ \A n \in 1..(b - 1) : name[n] \notin Digits
        last  == CHOOSE e \in first..Len(name) :
                     /\ AllDigits(name, first, e)
                     /\ (e = Len(name) \/ name[e + 1] \notin Digits)
    IN  DecimalValue(SubSeq(name, first, last))

\* int(numbers[-1])
FallbackNumber(name) == DecimalValue(LastNumber(name))

\* The mutant of Unresolvable: frame 0 stands for "no number".
Unresolvable_zero == 1 - 1

\* return -1
Unresolvable == 0 - 1

\* ContinuousFilter.extract_frame_number
extract_frame_number(name) ==
    LET matching == {n \in 1..Len(Patterns) : MatchStarts(name, n) # {}}
    IN  IF matching # {}
        THEN LET n == CHOOSE m \in matching : \A k \in matching : m <= k
             IN  DecimalValue(Group(name, n))
        ELSE IF \E n \in 1..Len(name) : name[n] \in Digits
             THEN FallbackNumber(name)
             ELSE Unresolvable

\* ------------------------------------------------------- analyze_continuity
\* sorted(...) of a set of integers: the ascending sequence of its members.
Sorted(S) ==
    [n \in 1..Cardinality(S) |->
        CHOOSE x \in S : Cardinality({y \in S : y < x}) = n - 1]

\* The mutant of SortedList: the list is left in the order it has.
SortedList_unsorted(list) == list

\* sorted(...) of a list of distinct integers.
SortedList(list) == Sorted({list[n] : n \in DOMAIN list})

\* The keys of files_dict in the order files_dict.items() yields them.
Keys(fd) == SelectSeq(key_order, LAMBDA k : k \in DOMAIN fd)

\* The mutant of FramesWithPredictions: the has_predictions filter is left out.
FramesWithPredictions_nofilter(fd) == SortedList(Keys(fd))

\* frames_with_predictions: the list of the frames whose file has
\* predictions, in the order of files_dict.items(), sorted.
FramesWithPredictions(fd) ==
    LET HasPred(frame) == has_predictions(fd[frame])
    IN  SortedList(SelectSeq(Keys(fd), HasPred))

\* pred_evals after has_predictions read the file of every frame in keys.
Evaluated(evals, keys) ==
    [k \in DOMAIN evals \cup keys |->
        (IF k \in DOMAIN evals THEN evals[k] ELSE 0)
            + (IF k \in keys THEN 1 ELSE 0)]

\* Some has_predictions call of the list comprehension raises.
ComprehensionRaises(fd) ==
    \E frame \in DOMAIN fd : has_predictions_raises(fd[frame])

\* The mutant of FreshValid: the set of an earlier call is kept.
FreshValid_stale == valid_frames

\* valid_frames = set()
FreshValid == {}

\* The record of a call that returned `result`.
Returned(result) ==
    [files_dict |-> files_dict, key_order |-> key_order,
     continuous_threshold |-> continuous_threshold, valid_frames |-> result]

\* The mutant of BelowThreshold: the comparison is one off.
BelowThreshold_offbyone(n, threshold) == n < threshold - 1

\* The short circuit: fewer frames with predictions than the threshold.
BelowThreshold(n, threshold) == n < threshold

\* The mutant of Consecutive: a step of two also continues the run.
Consecutive_skip(next_frame, current) ==
    next_frame = current + 1 \/ next_frame = current + 2

\* The contiguity test of the inner loop.
Consecutive(next_frame, current) == next_frame = current + 1

\* The mutant of ReachedThreshold: the comparison is one off.
ReachedThreshold_offbyone(count, threshold) == count >= threshold - 1

\* The threshold test of the inner loop.
ReachedThreshold(count, threshold) == count >= threshold

\* ------------------------------------------------------------------ inputs
\* Every dictionary over the frames 0..MaxFrame.
SmallDicts == UNION {[keys -> Files] : keys \in SUBSET (0..MaxFrame)}

\* The dictionary whose keys are `keys`, with predictions exactly on `present`.
DictOf(keys, present) ==
    [k \in keys |-> IF k \in present THEN BoxFile ELSE BlankFile]

\* The concrete sequences of the shipped configuration (threshold 30).
LongBlockDict  == DictOf(1..35, 1..35)
ShortBlockDict == DictOf(1..10, {5, 6, 7})
GapDict        == DictOf((1..29) \cup (31..60), (1..29) \cup (31..60))

ConfigDicts == {LongBlockDict, ShortBlockDict, GapDict}

\* Every dictionary over the frames 0..MaxSmallFrame, files that cannot be
\* read included.
UnreadableDicts ==
    UNION {[keys -> Files \cup {UnreadableFile}] :
              keys \in SUBSET (0..MaxSmallFrame)}

\* Every content of at most MaxContentLen characters.
Contents == UNION {[1..n -> Whitespace \cup {"0"}] : n \in 0..MaxContentLen}

\* Every file: missing, or with a content that can or cannot be read.
AllFiles ==
    {MissingFile} \cup
    {[exists |-> TRUE, readable |-> r, content |-> c] :
        r \in BOOLEAN, c \in Contents}

\* The dictionaries of one frame, with any file.
OneFileDicts == {[k \in {0} |-> f] : f \in AllFiles}

\* ----------------------------------------------------------- state machine
\* pc is the position inside analyze_continuity: "ready" before the call,
\* "outer" at the head of the loop over start frames, "inner" at the head of
\* the loop over the following frames, "done" after the return.  Positions i
\* and j are 1-based here and 0-based in the source.
\* No call of analyze_continuity has started.
CallStart ==
    /\ frames_with_predictions = <<>>
    /\ i = 0
    /\ j = 0
    /\ consecutive_count = 0
    /\ current_frame = 0
    /\ valid_frames = {}
    /\ warned = FALSE
    /\ pred_evals = <<>>
    /\ returned = <<>>
    /\ call_no = 1

\* extract_frame_number is not called.
ExtractIdle == filename = <<>> /\ extracted = 0 - 1

\* process_all has not started.
RunFresh ==
    /\ label_files = <<>>
    /\ backup_original = FALSE
    /\ backup_dir = {}
    /\ files_without_number = <<>>
    /\ files_with_predictions = <<>>
    /\ outputs = <<>>
    /\ w = 0
    /\ kept_count = 0
    /\ removed_count = 0
    /\ no_prediction_count = 0
    /\ segments = <<>>

\* A prediction tuple: box stands for (class_id, x_center, y_center, width,
\* height), the values of the line of that number.
Prediction(box, confidence) == [box |-> box, confidence |-> confidence]

\* Python's None where a prediction is expected: the prediction of no line,
\* with a confidence no line has.
None == Prediction(0, 0 - 1)

\* process_single_file is not called.
PostIdle ==
    /\ spc = "none"
    /\ label_lines = <<>>
    /\ predictions = <<>>
    /\ best_prediction = None
    /\ output_lines = <<>>
    /\ counts = <<>>

\* split_patients is not called.
SplitIdle ==
    /\ mpc = "none"
    /\ patient_folders = <<>>
    /\ train_ratio = 0
    /\ val_ratio = 0
    /\ split_idx = 0
    /\ announced = <<>>
    /\ train_patients = <<>>
    /\ val_patients = <<>>

\* The other tools of the package are not running.
OthersIdle == PostIdle /\ SplitIdle

\* process_all is not running.
RunIdle == ppc = "none" /\ RunFresh /\ OthersIdle

Init ==
    /\ \/ /\ files_dict \in SmallDicts \cup UnreadableDicts \cup OneFileDicts
          /\ continuous_threshold \in 1..MaxThreshold
       \/ /\ files_dict \in ConfigDicts
          /\ continuous_threshold = ConfigThreshold
    /\ key_order = Sorted(DOMAIN files_dict)
    /\ pc = "ready"
    /\ CallStart
    /\ ExtractIdle
    /\ RunIdle

\* if not files_dict: return set()
ReturnEmpty ==
    /\ pc = "ready"
    /\ DOMAIN files_dict = {}
    /\ valid_frames' = {}
    /\ returned' = Append(returned, Returned({}))
    /\ pc' = "done"
    /\ UNCHANGED <<files_dict, continuous_threshold, frames_with_predictions,
                   i, j, consecutive_count, current_frame, warned, pred_evals,
                   outside>>

\* Fewer frames with predictions than the threshold: warn and return set().
ReturnBelowThreshold ==
    /\ pc = "ready"
    /\ DOMAIN files_dict # {}
    /\ ~ComprehensionRaises(files_dict)
    /\ LET frames == FramesWithPredictions(files_dict)
       IN  /\ BelowThreshold(Len(frames), continuous_threshold)
           /\ frames_with_predictions' = frames
    /\ pred_evals' = Evaluated(pred_evals, DOMAIN files_dict)
    /\ warned' = TRUE
    /\ valid_frames' = {}
    /\ returned' = Append(returned, Returned({}))
    /\ pc' = "done"
    /\ UNCHANGED <<files_dict, continuous_threshold, i, j, consecutive_count,
                   current_frame, outside>>

\* Otherwise valid_frames = set() and the outer loop starts at the first frame.
BeginScan ==
    /\ pc = "ready"
    /\ DOMAIN files_dict # {}
    /\ ~ComprehensionRaises(files_dict)
    /\ LET frames == FramesWithPredictions(files_dict)
       IN  /\ ~BelowThreshold(Len(frames), continuous_threshold)
           /\ frames_with_predictions' = frames
    /\ pred_evals' = Evaluated(pred_evals, DOMAIN files_dict)
    /\ valid_frames' = FreshValid
    /\ i' = 1
    /\ pc' = "outer"
    /\ UNCHANGED <<files_dict, continuous_threshold, j, consecutive_count,
                   current_frame, warned, returned, outside>>

\* The outer loop takes its next start frame: consecutive_count = 1,
\* current_frame = start_frame, and the inner loop starts at i + 1.
NextStart ==
    /\ pc = "outer"
    /\ i <= Len(frames_with_predictions)
    /\ consecutive_count' = 1
    /\ current_frame' = frames_with_predictions[i]
    /\ j' = i + 1
    /\ pc' = "inner"
    /\ UNCHANGED <<files_dict, continuous_threshold, frames_with_predictions,
                   i, valid_frames, warned, pred_evals, returned, outside>>

\* The outer loop is exhausted: return valid_frames.
ReturnValid ==
    /\ pc = "outer"
    /\ i > Len(frames_with_predictions)
    /\ returned' = Append(returned, Returned(valid_frames))
    /\ pc' = "done"
    /\ UNCHANGED <<files_dict, continuous_threshold, frames_with_predictions,
                   i, j, consecutive_count, current_frame, valid_frames, warned,
                   pred_evals, outside>>

\* The next frame continues the run: count it, and once the threshold is
\* reached add every frame of the run so far to valid_frames.
Extend ==
    /\ pc = "inner"
    /\ j <= Len(frames_with_predictions)
    /\ Consecutive(frames_with_predictions[j], current_frame)
    /\ consecutive_count' = consecutive_count + 1
    /\ current_frame' = frames_with_predictions[j]
    /\ valid_frames' =
          IF ReachedThreshold(consecutive_count + 1, continuous_threshold)
          THEN valid_frames \cup
                 {frames_with_predictions[i + k] : k \in 0..consecutive_count}
          ELSE valid_frames
    /\ j' = j + 1
    /\ UNCHANGED <<files_dict, continuous_threshold, frames_with_predictions,
                   i, pc, warned, pred_evals, returned, outside>>

\* The next frame does not continue the run: break.
Break ==
    /\ pc = "inner"
    /\ j <= Len(frames_with_predictions)
    /\ ~Consecutive(frames_with_predictions[j], current_frame)
    /\ i' = i + 1
    /\ pc' = "outer"
    /\ UNCHANGED <<files_dict, continuous_threshold, frames_with_predictions,
                   j, consecutive_count, current_frame, valid_frames, warned,
                   pred_evals, returned, outside>>

\* The inner loop is exhausted: back to the outer loop.
InnerExhausted ==
    /\ pc = "inner"
    /\ j > Len(frames_with_predictions)
    /\ i' = i + 1
    /\ pc' = "outer"
    /\ UNCHANGED <<files_dict, continuous_threshold, frames_with_predictions,
                   j, consecutive_count, current_frame, valid_frames, warned,
                   pred_evals, returned, outside>>

\* Every dictionary over the frames 0..MaxCallFrame whose files are readable.
CallDicts ==
    UNION {[keys -> {BlankFile, BoxFile}] : keys \in SUBSET (0..MaxCallFrame)}

\* reversed(list)
Reversed(list) == [n \in 1..Len(list) |-> list[Len(list) + 1 - n]]

InitCalls ==
    /\ files_dict \in CallDicts
    /\ continuous_threshold \in 1..MaxCallThreshold
    /\ key_order = Sorted(DOMAIN files_dict)
    /\ pc = "ready"
    /\ CallStart
    /\ ExtractIdle
    /\ RunIdle

\* A new call starts: its locals are fresh; valid_frames still holds the set
\* the previous call built, until the new call assigns it.
NewCall ==
    /\ pc = "done"
    /\ pc' = "ready"
    /\ call_no' = call_no + 1
    /\ frames_with_predictions' = <<>>
    /\ i' = 0
    /\ j' = 0
    /\ consecutive_count' = 0
    /\ current_frame' = 0
    /\ warned' = FALSE
    /\ UNCHANGED <<continuous_threshold, valid_frames, pred_evals, returned,
                   extractvars, runvars, postvars, splitvars>>

\* The second call on the instance, on any dictionary.
CallOther ==
    /\ call_no = 1
    /\ NewCall
    /\ files_dict' \in CallDicts
    /\ key_order' = Sorted(DOMAIN files_dict')

\* The third call, on the dictionary of the first call, built by inserting
\* its keys in ascending or in descending order.
CallFirstAgain ==
    /\ call_no = 2
    /\ NewCall
    /\ files_dict' = returned[1].files_dict
    /\ key_order' \in {Sorted(DOMAIN files_dict'),
                       Reversed(Sorted(DOMAIN files_dict'))}

\* The file names of at most MaxNameLen characters.
Names == UNION {[1..n -> NameChars] : n \in 0..MaxNameLen}

\* No call of analyze_continuity is made.
NoCall ==
    /\ files_dict = <<>>
    /\ continuous_threshold = ConfigThreshold
    /\ key_order = <<>>
    /\ pc = "idle"
    /\ CallStart

InitExtract ==
    /\ OthersIdle
    /\ filename \in Names
    /\ extracted = Unresolvable
    /\ ppc = "extract"
    /\ RunFresh
    /\ NoCall

\* One call of extract_frame_number.
ExtractFrameNumber ==
    /\ ppc = "extract"
    /\ extracted' = extract_frame_number(filename)
    /\ ppc' = "extracted"
    /\ UNCHANGED <<files_dict, continuous_threshold, callstate, key_order,
                   pred_evals, returned, call_no, filename, segments, postvars,
                   splitvars, label_files,
                   backup_original, backup_dir, files_without_number,
                   files_with_predictions, outputs, w, kept_count,
                   removed_count, no_prediction_count>>

NextExtract == ExtractFrameNumber

SpecExtract == InitExtract /\ [][NextExtract]_vars

Next ==
    \/ ReturnEmpty
    \/ ReturnBelowThreshold
    \/ BeginScan
    \/ NextStart
    \/ ReturnValid
    \/ Extend
    \/ Break
    \/ InnerExhausted

Spec == Init /\ [][Next]_vars

NextCalls == Next \/ CallOther \/ CallFirstAgain

SpecCalls == InitCalls /\ [][NextCalls]_vars

\* ---------------------------------------------------------------- process_all
\* ppc is the position inside process_all: "start" after the glob, "build"
\* before the loop that builds files_dict, "stats" before the count of the
\* files with predictions, "analyze" during analyze_continuity, "write" in
\* the loop that writes the output files, "report" before the segment
\* report, "finished" after the return.
\* A label file the glob found: its name and what has_predictions reads.
LabelFile(name, content) ==
    [name |-> name, exists |-> TRUE, readable |-> TRUE, content |-> content]

\* The names of the enumerated label files: frames 0, 1, 1 again, 11, and a
\* name without a number.
RunNames ==
    { <<"0", ".", "t", "x", "t">>,
      <<"1", ".", "t", "x", "t">>,
      <<"0", "1", ".", "t", "x", "t">>,
      <<"1", "1", ".", "t", "x", "t">>,
      <<"t", ".", "t", "x", "t">> }

\* list(self.input_dir.glob('*.txt')): at most MaxFiles files of distinct
\* names, blank or with a box line, in any order.
Directories ==
    LET Entries == {LabelFile(name, content) :
                       name \in RunNames,
                       content \in {BlankFile.content, BoxFile.content}}
    IN  {d \in UNION {[1..n -> Entries] : n \in 0..MaxFiles} :
            \A a, b \in DOMAIN d : a # b => d[a].name # d[b].name}

\* The smallest threshold an instance is constructed with.
MinRunThreshold == 0 - 1

\* The mutant of Insert: a frame that is in the dictionary keeps its file.
Insert_firstwins(fd, frame_num, label_file) ==
    [k \in DOMAIN fd \cup {frame_num} |->
        IF k \in DOMAIN fd THEN fd[k] ELSE label_file]

\* files_dict[frame_num] = label_file
Insert(fd, frame_num, label_file) ==
    [k \in DOMAIN fd \cup {frame_num} |->
        IF k = frame_num THEN label_file ELSE fd[k]]

\* files_dict after the loop over the label files.
RECURSIVE BuildFilesDict(_)
BuildFilesDict(files) ==
    IF files = <<>> THEN <<>>
    ELSE LET before     == BuildFilesDict(SubSeq(files, 1, Len(files) - 1))
             label_file == files[Len(files)]
             frame_num  == extract_frame_number(label_file.name)
         IN  IF frame_num >= 0
             THEN Insert(before, frame_num, label_file)
             ELSE before

\* The order in which that loop inserted the keys of files_dict.
RECURSIVE BuildKeyOrder(_)
BuildKeyOrder(files) ==
    IF files = <<>> THEN <<>>
    ELSE LET before    == BuildKeyOrder(SubSeq(files, 1, Len(files) - 1))
             frame_num == extract_frame_number(files[Len(files)].name)
         IN  IF frame_num >= 0 /\ \A n \in DOMAIN before : before[n] # frame_num
             THEN Append(before, frame_num)
             ELSE before

\* files_without_number after the loop.
FilesWithoutNumber(files) ==
    SelectSeq(files, LAMBDA f : ~(extract_frame_number(f.name) >= 0))

\* The mutant of OutputContent: every output is a copy of its input.
OutputContent_copy(label_file, frame_num, valid) == label_file.content

\* What the write loop puts at output_path: a copy of the label file for a
\* frame of valid_frames, an empty file otherwise.
OutputContent(label_file, frame_num, valid) ==
    IF frame_num \in valid THEN label_file.content ELSE <<>>

\* The instance is constructed and the glob has listed the input directory.
RunStart ==
    /\ OthersIdle
    /\ continuous_threshold \in MinRunThreshold..MaxRunThreshold
    /\ backup_original \in BOOLEAN
    /\ ppc = "start"
    /\ pc = "idle"
    /\ files_dict = <<>>
    /\ key_order = <<>>
    /\ CallStart
    /\ ExtractIdle
    /\ backup_dir = {}
    /\ files_without_number = <<>>
    /\ files_with_predictions = <<>>
    /\ outputs = <<>>
    /\ w = 0
    /\ kept_count = 0
    /\ removed_count = 0
    /\ no_prediction_count = 0
    /\ segments = <<>>

InitRun ==
    /\ label_files \in Directories
    /\ RunStart

\* if not label_files: return
ReturnNoFiles ==
    /\ ppc = "start"
    /\ label_files = <<>>
    /\ ppc' = "finished"
    /\ UNCHANGED <<files_dict, continuous_threshold, callstate, key_order,
                   pred_evals, returned, call_no, extractvars, postvars, splitvars, segments, label_files,
                   backup_original, backup_dir, files_without_number,
                   files_with_predictions, outputs, w, kept_count,
                   removed_count, no_prediction_count>>

\* The mutant of BackupCopies: only the files with a frame number are copied.
BackupCopies_numbered(files) ==
    {[name |-> files[n].name, content |-> files[n].content] :
        n \in {m \in DOMAIN files : extract_frame_number(files[m].name) >= 0}}

\* The copies the backup loop puts into the backup directory: one per label
\* file, under the file's name.
BackupCopies(files) ==
    {[name |-> files[n].name, content |-> files[n].content] :
        n \in DOMAIN files}

\* if self.backup_original: copy every label file to the backup directory.
Backup ==
    /\ ppc = "start"
    /\ label_files # <<>>
    /\ backup_dir' =
          IF backup_original
          THEN BackupCopies(label_files)
          ELSE backup_dir
    /\ ppc' = "build"
    /\ UNCHANGED <<files_dict, continuous_threshold, callstate, key_order,
                   pred_evals, returned, call_no, extractvars, postvars, splitvars, segments, label_files,
                   backup_original, files_without_number,
                   files_with_predictions, outputs, w, kept_count,
                   removed_count, no_prediction_count>>

\* The loop over the label files left files_dict empty: return.
ReturnNoNumbers ==
    /\ ppc = "build"
    /\ DOMAIN BuildFilesDict(label_files) = {}
    /\ files_without_number' = FilesWithoutNumber(label_files)
    /\ ppc' = "finished"
    /\ UNCHANGED <<files_dict, continuous_threshold, callstate, key_order,
                   pred_evals, returned, call_no, extractvars, postvars, splitvars, segments, label_files,
                   backup_original, backup_dir, files_with_predictions,
                   outputs, w, kept_count, removed_count, no_prediction_count>>

\* The loop over the label files built files_dict and files_without_number.
BuildMapping ==
    /\ ppc = "build"
    /\ DOMAIN BuildFilesDict(label_files) # {}
    /\ files_dict' = BuildFilesDict(label_files)
    /\ key_order' = BuildKeyOrder(label_files)
    /\ files_without_number' = FilesWithoutNumber(label_files)
    /\ ppc' = "stats"
    /\ UNCHANGED <<continuous_threshold, callstate, pred_evals, returned,
                   call_no, extractvars, postvars, splitvars, segments, label_files, backup_original,
                   backup_dir, files_with_predictions, outputs, w, kept_count,
                   removed_count, no_prediction_count>>

\* files_with_predictions = [frame for frame in files_dict.keys() if
\* self.has_predictions(files_dict[frame])], then analyze_continuity is called.
CountPredictions ==
    /\ ppc = "stats"
    /\ files_with_predictions' =
          SelectSeq(Keys(files_dict),
                    LAMBDA frame : has_predictions(files_dict[frame]))
    /\ pred_evals' = Evaluated(pred_evals, DOMAIN files_dict)
    /\ pc' = "ready"
    /\ ppc' = "analyze"
    /\ UNCHANGED <<files_dict, continuous_threshold, frames_with_predictions,
                   i, j, consecutive_count, current_frame, valid_frames,
                   warned, key_order, returned, call_no, extractvars, postvars, splitvars, segments,
                   label_files, backup_original, backup_dir,
                   files_without_number, outputs, w, kept_count,
                   removed_count, no_prediction_count>>

\* analyze_continuity returned valid_frames: the write loop starts at the
\* smallest frame.
BeginWrite ==
    /\ ppc = "analyze"
    /\ pc = "done"
    /\ w' = 1
    /\ ppc' = "write"
    /\ UNCHANGED <<files_dict, continuous_threshold, callstate, key_order,
                   pred_evals, returned, call_no, extractvars, postvars, splitvars, segments, label_files,
                   backup_original, backup_dir, files_without_number,
                   files_with_predictions, outputs, kept_count,
                   removed_count, no_prediction_count>>

\* The mutant of Removed: every frame outside valid_frames counts as removed.
Removed_any(frame_num, valid, has_pred) == frame_num \notin valid

\* The branch of the write loop that counts a removed prediction: the frame
\* is not in valid_frames and its file has predictions.
Removed(frame_num, valid, has_pred) == frame_num \notin valid /\ has_pred

\* One iteration of the write loop over sorted(files_dict.keys()).
WriteFrame ==
    /\ ppc = "write"
    /\ w <= Cardinality(DOMAIN files_dict)
    /\ LET frame_num  == Sorted(DOMAIN files_dict)[w]
           label_file == files_dict[frame_num]
           has_pred   == has_predictions(label_file)
       IN  /\ pred_evals' = Evaluated(pred_evals, {frame_num})
           /\ outputs' =
                 Append(outputs,
                        [name    |-> label_file.name,
                         content |-> OutputContent(label_file, frame_num,
                                                   valid_frames)])
           /\ kept_count' =
                 IF frame_num \in valid_frames
                 THEN kept_count + 1 ELSE kept_count
           /\ removed_count' =
                 IF Removed(frame_num, valid_frames, has_pred)
                 THEN removed_count + 1 ELSE removed_count
           /\ no_prediction_count' =
                 IF frame_num \notin valid_frames
                       /\ ~Removed(frame_num, valid_frames, has_pred)
                 THEN no_prediction_count + 1 ELSE no_prediction_count
    /\ w' = w + 1
    /\ UNCHANGED <<files_dict, continuous_threshold, callstate, key_order,
                   returned, call_no, extractvars, postvars, splitvars, segments, ppc, label_files,
                   backup_original, backup_dir, files_without_number,
                   files_with_predictions>>

\* The write loop is exhausted: the statistics are printed.
FinishRun ==
    /\ ppc = "write"
    /\ w > Cardinality(DOMAIN files_dict)
    /\ ppc' = "report"
    /\ UNCHANGED <<files_dict, continuous_threshold, callstate, key_order,
                   pred_evals, returned, call_no, extractvars, postvars, splitvars, segments, label_files,
                   backup_original, backup_dir, files_without_number,
                   files_with_predictions, outputs, w, kept_count,
                   removed_count, no_prediction_count>>

\* The mutant of SegmentLength: the last frame is not counted.
SegmentLength_short(start, end) == end - start

\* end - start + 1
SegmentLength(start, end) == end - start + 1

\* The loop over sorted_valid[1:], from position n on, with the segment
\* start..end open and the segments segs closed; the open segment is
\* appended after the loop.
RECURSIVE SegmentScan(_, _, _, _, _)
SegmentScan(sorted_valid, n, start, end, segs) ==
    IF n > Len(sorted_valid)
    THEN Append(segs, <<start, end, SegmentLength(start, end)>>)
    ELSE IF sorted_valid[n] = end + 1
         THEN SegmentScan(sorted_valid, n + 1, start, sorted_valid[n], segs)
         ELSE SegmentScan(sorted_valid, n + 1, sorted_valid[n], sorted_valid[n],
                          Append(segs, <<start, end, SegmentLength(start, end)>>))

\* The segments the report prints for a valid_frames that is not empty.
Segments(valid) ==
    LET sorted_valid == Sorted(valid)
    IN  SegmentScan(sorted_valid, 2, sorted_valid[1], sorted_valid[1], <<>>)

\* if valid_frames: the segments are computed and printed; then process_all
\* returns.
SegmentReport ==
    /\ ppc = "report"
    /\ segments' = IF valid_frames # {} THEN Segments(valid_frames) ELSE segments
    /\ ppc' = "finished"
    /\ UNCHANGED <<files_dict, continuous_threshold, callstate, key_order,
                   pred_evals, returned, call_no, extractvars, postvars, splitvars, label_files,
                   backup_original, backup_dir, files_without_number,
                   files_with_predictions, outputs, w, kept_count,
                   removed_count, no_prediction_count>>

\* The steps of process_all and of the analyze_continuity it calls;
\* process_all returns before the call when files_dict is empty, so the
\* call never takes the "if not files_dict" branch.
NextRun ==
    \/ ReturnNoFiles
    \/ Backup
    \/ ReturnNoNumbers
    \/ BuildMapping
    \/ CountPredictions
    \/ BeginWrite
    \/ WriteFrame
    \/ FinishRun
    \/ SegmentReport
    \/ ReturnBelowThreshold
    \/ BeginScan
    \/ NextStart
    \/ ReturnValid
    \/ Extend
    \/ Break
    \/ InnerExhausted

SpecRun == InitRun /\ [][NextRun]_vars

\* The names of a longer directory, in the order the glob lists them:
\* frames 0, 1, 10, 11 and a name without a number.
ReportNames ==
    << <<"0", ".", "t", "x", "t">>,
       <<"1", ".", "t", "x", "t">>,
       <<"1", "0", ".", "t", "x", "t">>,
       <<"1", "1", ".", "t", "x", "t">>,
       <<"t", ".", "t", "x", "t">> >>

\* The directory that holds the names at the positions `listed`, those at
\* the positions `boxed` with a box line and the others blank.
ReportDirectory(listed, boxed) ==
    LET at == Sorted(listed)
    IN  [n \in 1..Len(at) |->
            LabelFile(ReportNames[at[n]],
                      IF at[n] \in boxed THEN BoxFile.content
                                         ELSE BlankFile.content)]

ReportDirectories ==
    {ReportDirectory(listed, boxed) :
        listed \in SUBSET DOMAIN ReportNames, boxed \in SUBSET DOMAIN ReportNames}

\* process_all on one of the longer directories.
InitReport ==
    /\ label_files \in ReportDirectories
    /\ RunStart

SpecReport == InitReport /\ [][NextRun]_vars

\* The call has returned.
Done == pc = "done"

TypeOK ==
    /\ pc \in {"idle", "ready", "outer", "inner", "done"}
    /\ warned \in BOOLEAN
    /\ valid_frames \subseteq DOMAIN files_dict
    /\ continuous_threshold \in Int

\* ---------------------------------------------------- PredictionPostProcessor
\* A line of a label file, by what read_yolo_predictions looks at: the
\* number of its whitespace-separated parts, whether int() and float()
\* accept them, and the value of the sixth part.
Line(columns, numeric, confidence) ==
    [columns |-> columns, numeric |-> numeric, confidence |-> confidence]

\* A blank line, a line of four parts, a line of five parts that are or are
\* not numbers, and the lines of six parts with each confidence.
Lines ==
    {Line(0, TRUE, 0), Line(4, TRUE, 0), Line(5, TRUE, 0), Line(5, FALSE, 0)}
        \cup {Line(6, TRUE, c) : c \in 0..MaxConfidence}

\* The label files of at most MaxLines lines.
LabelLines == UNION {[1..n -> Lines] : n \in 0..MaxLines}

\* The conversion of a line of five parts or more raises.
ParseRaises(line) == line.columns >= 5 /\ ~line.numeric

\* The predictions the loop over the lines has appended after line n.
RECURSIVE ReadLines(_, _)
ReadLines(lines, n) ==
    IF n = 0 THEN <<>>
    ELSE LET before == ReadLines(lines, n - 1)
             line   == lines[n]
         IN  IF line.columns >= 5
             THEN Append(before,
                         Prediction(n, IF line.columns >= 6
                                       THEN line.confidence
                                       ELSE DefaultConfidence))
             ELSE before

\* read_yolo_predictions: the predictions of the lines of five parts or
\* more, or [] when a conversion raised.
read_yolo_predictions(lines) ==
    IF \E n \in DOMAIN lines : ParseRaises(lines[n])
    THEN <<>>
    ELSE ReadLines(lines, Len(lines))

\* The mutant of Before: a prediction also goes before those of its own
\* confidence.
Before_unstable(p, q) == p.confidence >= q.confidence

\* sorted(..., key=lambda x: x[5], reverse=True) is stable: a later
\* prediction goes before an earlier one only with a greater confidence.
Before(p, q) == p.confidence > q.confidence

\* sorted_predictions, built by inserting the predictions in input order.
RECURSIVE SortedPredictions(_)
SortedPredictions(list) ==
    IF list = <<>> THEN <<>>
    ELSE LET before == SortedPredictions(SubSeq(list, 1, Len(list) - 1))
             p      == list[Len(list)]
             ahead  == SelectSeq(before, LAMBDA q : ~Before(p, q))
             behind == SelectSeq(before, LAMBDA q : Before(p, q))
         IN  ahead \o <<p>> \o behind

\* filter_predictions
filter_predictions(list) ==
    IF list = <<>> THEN None ELSE SortedPredictions(list)[1]

\* if confidence != 1.0
HasConfidenceColumn(prediction) == prediction.confidence # DefaultConfidence

\* The line save_yolo_prediction writes.
save_yolo_prediction(prediction) ==
    Line(IF HasConfidenceColumn(prediction) THEN 6 ELSE 5, TRUE,
         IF HasConfidenceColumn(prediction) THEN prediction.confidence ELSE 0)

\* spc is the position inside process_single_file: "read" before
\* read_yolo_predictions, "filter" before filter_predictions, "save" before
\* the output is written, "returned" after the return.
InitPost ==
    /\ label_lines \in LabelLines
    /\ spc = "read"
    /\ predictions = <<>>
    /\ best_prediction = None
    /\ output_lines = <<>>
    /\ counts = <<>>
    /\ SplitIdle
    /\ ppc = "none"
    /\ RunFresh
    /\ ExtractIdle
    /\ NoCall

\* What process_single_file never touches.
notpost == <<files_dict, continuous_threshold, callstate, key_order, pred_evals,
             returned, call_no, extractvars, runvars, splitvars>>

\* No predictions were read: an empty output file is created, (0, 0) returned.
ReadNothing ==
    /\ spc = "read"
    /\ read_yolo_predictions(label_lines) = <<>>
    /\ predictions' = <<>>
    /\ output_lines' = <<>>
    /\ counts' = <<0, 0>>
    /\ spc' = "returned"
    /\ UNCHANGED <<label_lines, best_prediction, notpost>>

\* predictions = self.read_yolo_predictions(str(label_file)), not empty.
ReadPredictions ==
    /\ spc = "read"
    /\ read_yolo_predictions(label_lines) # <<>>
    /\ predictions' = read_yolo_predictions(label_lines)
    /\ spc' = "filter"
    /\ UNCHANGED <<label_lines, best_prediction, output_lines, counts, notpost>>

\* best_prediction = self.filter_predictions(predictions)
FilterPredictions ==
    /\ spc = "filter"
    /\ best_prediction' = filter_predictions(predictions)
    /\ spc' = "save"
    /\ UNCHANGED <<label_lines, predictions, output_lines, counts, notpost>>

\* if best_prediction: the prediction is saved and (original_count, 1)
\* returned; else an empty file is created and (original_count, 0) returned.
SaveBest ==
    /\ spc = "save"
    /\ output_lines' =
          IF best_prediction # None
          THEN <<save_yolo_prediction(best_prediction)>>
          ELSE <<>>
    /\ counts' = <<Len(predictions), IF best_prediction # None THEN 1 ELSE 0>>
    /\ spc' = "returned"
    /\ UNCHANGED <<label_lines, predictions, best_prediction, notpost>>

NextPost == ReadNothing \/ ReadPredictions \/ FilterPredictions \/ SaveBest

SpecPost == InitPost /\ [][NextPost]_vars

\* ------------------------------------------------------------ DatasetSplitter
\* A slice index of Python on a list of length len: a negative index counts
\* from the end, and the result is clamped to 0..len.
SliceIndex(x, len) ==
    IF x < 0
    THEN (IF x + len < 0 THEN 0 ELSE x + len)
    ELSE (IF x > len THEN len ELSE x)

\* The mutant of PySlice: the element at the end index is taken too.
PySlice_inclusive(list, from, to) ==
    SubSeq(list, SliceIndex(from, Len(list)) + 1, SliceIndex(to + 1, Len(list)))

\* list[from:to]
PySlice(list, from, to) ==
    SubSeq(list, SliceIndex(from, Len(list)) + 1, SliceIndex(to, Len(list)))

\* The sorted lists of patient folders: folder n is the n-th in sorted order.
PatientLists == {[n \in 1..total |-> n] : total \in 0..MaxPatients}

\* mpc is the position inside split_patients: "start" at its head, "slice"
\* before the two slices, "returned" after the return.
InitSplit ==
    /\ patient_folders \in PatientLists
    /\ train_ratio \in 0..MaxRatio
    /\ val_ratio \in 0..MaxRatio
    /\ mpc = "start"
    /\ split_idx = 0
    /\ announced = <<>>
    /\ train_patients = <<>>
    /\ val_patients = <<>>
    /\ PostIdle
    /\ ppc = "none"
    /\ RunFresh
    /\ ExtractIdle
    /\ NoCall

\* What split_patients never touches.
notsplit == <<files_dict, continuous_threshold, callstate, key_order,
              pred_evals, returned, call_no, extractvars, runvars, postvars>>

\* split_idx = self.train_ratio, not more than the folders there are.
SplitAtTrainRatio ==
    /\ mpc = "start"
    /\ ~(train_ratio > Len(patient_folders))
    /\ split_idx' = train_ratio
    /\ mpc' = "slice"
    /\ UNCHANGED <<patient_folders, train_ratio, val_ratio, announced,
                   train_patients, val_patients, notsplit>>

\* if split_idx > total: the warning states that the first total - val_ratio
\* folders are used, and split_idx = total - self.val_ratio.
SplitWithWarning ==
    /\ mpc = "start"
    /\ train_ratio > Len(patient_folders)
    /\ announced' = <<Len(patient_folders) - val_ratio>>
    /\ split_idx' = Len(patient_folders) - val_ratio
    /\ mpc' = "slice"
    /\ UNCHANGED <<patient_folders, train_ratio, val_ratio, train_patients,
                   val_patients, notsplit>>

\* train_patients = patient_folders[:split_idx]
\* val_patients = patient_folders[split_idx:split_idx + self.val_ratio]
SlicePatients ==
    /\ mpc = "slice"
    /\ train_patients' = PySlice(patient_folders, 0, split_idx)
    /\ val_patients' = PySlice(patient_folders, split_idx, split_idx + val_ratio)
    /\ mpc' = "returned"
    /\ UNCHANGED <<patient_folders, train_ratio, val_ratio, split_idx,
                   announced, notsplit>>

NextSplit == SplitAtTrainRatio \/ SplitWithWarning \/ SlicePatients

SpecSplit == InitSplit /\ [][NextSplit]_vars

\* ------------------------------------------------- the terms of the claims
\* The detection flag of a frame, as the specification defines it: the file
\* exists, can be read, and its content holds a character that is not
\* whitespace.
DetectionPresent(f) ==
    /\ f.exists
    /\ f.readable
    /\ \E n \in 1..Len(f.content) : f.content[n] \notin Whitespace

\* The detection-present frames of the dictionary.
Present == {k \in DOMAIN files_dict : DetectionPresent(files_dict[k])}

\* The integers between two frames, in either order.
Between(a, b) == IF a <= b THEN a..b ELSE b..a

\* The maximal stride-1 block of detection-present frames that holds frame k.
BlockOf(k) == {m \in Present : Between(k, m) \subseteq Present}

BlockLen(k) == Cardinality(BlockOf(k))

\* The maximal blocks of the dictionary.
Blocks == {BlockOf(k) : k \in Present}

\* The threshold is one the contract admits.
ThresholdOK == continuous_threshold >= 1

\* What the two loops compute: the blocks of at least the threshold and of at
\* least two frames (the threshold is only tested after a frame was appended
\* to the run, so a run of one frame is never added).
ScanResult ==
    Done => valid_frames =
              {k \in Present : /\ BlockLen(k) >= continuous_threshold
                               /\ BlockLen(k) >= 2}

\* ------------------------------------------------------------------ claims
\* C1: for every mapping and every threshold N >= 1, analyze_continuity
\* returns exactly the frames whose maximal block has length >= N.
C1_ExactlyTheLongBlocks ==
    (Done /\ ThresholdOK) =>
        valid_frames = {k \in Present : BlockLen(k) >= continuous_threshold}

\* C2: for every threshold N >= 1, N = 1 included, when the detection-present
\* frames form a single contiguous block of length exactly N, all N frames of
\* the block are returned.
C2_BlockOfExactlyN ==
    (/\ Done
     /\ ThresholdOK
     /\ Cardinality(Blocks) = 1
     /\ Cardinality(Present) = continuous_threshold)
        => valid_frames = Present

\* C3: the returned set is a subset of the keys whose detection flag is true:
\* no detection-absent frame and no index absent from the mapping is returned.
C3_SubsetOfPresent ==
    /\ valid_frames \subseteq Present
    /\ \A k \in valid_frames : k \in DOMAIN files_dict

\* C3's case: frames were returned from a mapping that also holds a
\* detection-absent key and lacks an index in between its keys.
C3_Witness ==
    /\ Done
    /\ valid_frames # {}
    /\ \E k \in DOMAIN files_dict : k \notin Present
    /\ \E a, b \in DOMAIN files_dict :
          \E m \in Between(a, b) : m \notin DOMAIN files_dict

\* C4: every returned frame is a member of a contiguous (stride-1) block of
\* detection-present frames of size >= threshold; no frame whose maximal
\* block is shorter than the threshold is returned, whatever other blocks the
\* sequence holds.
C4_OnlyLongBlocks ==
    Done =>
        /\ \A f \in valid_frames :
              f \in Present /\ BlockLen(f) >= continuous_threshold
        /\ \A k \in Present :
              BlockLen(k) < continuous_threshold => k \notin valid_frames

\* C4's case: frames were returned while the sequence also holds a block
\* shorter than the threshold.
C4_Witness ==
    /\ Done
    /\ valid_frames # {}
    /\ \E k \in Present : BlockLen(k) < continuous_threshold

\* C5: every maximal block of length L > N is returned whole, each qualifying
\* block independently; two disjoint blocks of lengths N and N+2 give a
\* result of size 2N+2, and frames 1..35 with threshold 30 give {1..35}.
C5_LongBlocksWhole ==
    (Done /\ ThresholdOK) =>
        /\ \A k \in Present :
              BlockLen(k) > continuous_threshold => k \in valid_frames
        /\ (/\ Cardinality(Blocks) = 2
            /\ {Cardinality(b) : b \in Blocks} =
                 {continuous_threshold, continuous_threshold + 2})
              => Cardinality(valid_frames) = 2 * continuous_threshold + 2
        /\ (files_dict = LongBlockDict /\ continuous_threshold = ConfigThreshold)
              => valid_frames = 1..35

\* C6: if fewer than N frames are detection-present, the empty set is
\* returned, however those frames are arranged.
C6_FewerThanThreshold ==
    (Done /\ ThresholdOK /\ Cardinality(Present) < continuous_threshold)
        => valid_frames = {}

\* C6's case: the call returned on a sequence with detection-present frames,
\* in more than one block, but fewer of them than the threshold.
C6_Witness ==
    /\ Done
    /\ Cardinality(Blocks) >= 2
    /\ Cardinality(Present) < continuous_threshold

\* A block of 2N detection-present frames with one detection-absent frame
\* inserted inside it.
SplitBlock ==
    \E lo \in Present : \E m \in (lo + 1)..(lo + 2 * continuous_threshold - 1) :
        Present = (lo..(lo + 2 * continuous_threshold)) \ {m}

\* C7: a maximal block shorter than N contributes no frame, also when other
\* blocks bring the total to N or more; when a block of 2N is split by one
\* detection-absent frame, a half shorter than N is excluded and a half of
\* length >= N is returned whole; frames {5,6,7} with threshold 30 give {}.
C7_ShortBlocksExcluded ==
    (Done /\ ThresholdOK) =>
        /\ \A k \in Present :
              BlockLen(k) < continuous_threshold => k \notin valid_frames
        /\ SplitBlock =>
              \A b \in Blocks :
                  IF Cardinality(b) < continuous_threshold
                  THEN b \cap valid_frames = {}
                  ELSE b \subseteq valid_frames
        /\ (files_dict = ShortBlockDict /\ continuous_threshold = ConfigThreshold)
              => valid_frames = {}

\* The indices between the smallest and the largest key that are no key.
MissingIndices ==
    LET keys == DOMAIN files_dict
    IN  IF keys = {} THEN {}
        ELSE LET lowest  == CHOOSE x \in keys : \A y \in keys : x <= y
                 highest == CHOOSE x \in keys : \A y \in keys : x >= y
             IN  (lowest..highest) \ keys

\* C8: an index absent from the mapping breaks continuity: the run counted
\* from a start frame never extends across a missing index, the blocks on
\* either side of a missing index are measured separately, and frames 1..29,
\* 31..60 (30 missing) with threshold 30 give exactly {31..60}.
C8_MissingIndexBreaksRun ==
    /\ pc = "inner" =>
          LET start_frame == frames_with_predictions[i]
          IN  /\ start_frame..current_frame \subseteq DOMAIN files_dict
              /\ consecutive_count = current_frame - start_frame + 1
    /\ Done =>
          \A m \in MissingIndices :
              /\ m \notin valid_frames
              /\ \A f \in valid_frames :
                    Cardinality({k \in Present : /\ (k < m) = (f < m)
                                                /\ Between(k, f) \subseteq Present})
                        >= continuous_threshold
    /\ (Done /\ files_dict = GapDict /\ continuous_threshold = ConfigThreshold)
          => valid_frames = 31..60

\* C8's case: the call returned on frames 1..29 and 31..60 with index 30
\* missing, and only the block after the missing index was kept.
C8_Witness ==
    /\ Done
    /\ files_dict = GapDict
    /\ 30 \in MissingIndices
    /\ valid_frames = 31..60

\* C9: whenever the threshold is >= the number of detection-present frames,
\* the empty set is returned and the "no frame will be kept" signal is given.
C9_AtOrAboveCount ==
    (Done /\ ThresholdOK /\ continuous_threshold >= Cardinality(Present))
        => (valid_frames = {} /\ warned)

\* C9 as amended: whenever the mapping is not empty and the threshold is
\* strictly greater than the number of detection-present frames, the empty
\* set is returned and the signal is given.
C9_AboveCount ==
    (/\ Done
     /\ ThresholdOK
     /\ DOMAIN files_dict # {}
     /\ continuous_threshold > Cardinality(Present))
        => (valid_frames = {} /\ warned)

\* C9's case: the call returned with the signal given, on a sequence that
\* has detection-present frames.
C9_Witness ==
    /\ Done
    /\ warned
    /\ Present # {}
    /\ continuous_threshold = Cardinality(Present) + 1

\* The single linear pass of the specification over the sorted
\* detection-present frames: position n is examined, run_start is the
\* position where the current run began, and a maximal run is flushed into
\* the result once, when it ends, if its length is >= N.
RECURSIVE LinearPass(_, _, _, _, _)
LinearPass(frames, N, n, run_start, valid) ==
    IF n > Len(frames) THEN valid
    ELSE LET start   == IF n > 1 /\ frames[n] = frames[n - 1] + 1
                        THEN run_start ELSE n
             ends    == n = Len(frames) \/ frames[n + 1] # frames[n] + 1
             flushed == IF ends /\ n - start + 1 >= N
                        THEN valid \cup {frames[k] : k \in start..n}
                        ELSE valid
         IN  LinearPass(frames, N, n + 1, start, flushed)

\* C10: for every mapping and every threshold N >= 1 the re-scanning loops
\* return the same set as the single linear pass.
C10_SameAsLinearPass ==
    (Done /\ ThresholdOK) =>
        valid_frames = LinearPass(Sorted(Present), continuous_threshold, 1, 1, {})

\* The frames analyze_continuity counted as having predictions, once the
\* list comprehension of the running or finished call has been evaluated.
Counted == {frames_with_predictions[n] : n \in DOMAIN frames_with_predictions}

ListBuilt == pc \in {"outer", "inner", "done"} /\ DOMAIN files_dict # {}

\* C14: analyze_continuity never raises for a mapping and a positive integer
\* threshold: no has_predictions call lets an exception out, the empty
\* mapping and a sub-threshold mapping return the empty set, and a file that
\* is missing or cannot be read counts as detection-absent.
C14_NeverRaises ==
    ThresholdOK =>
        /\ ~ComprehensionRaises(files_dict)
        /\ (Done /\ DOMAIN files_dict = {}) => valid_frames = {}
        /\ (Done /\ Cardinality(Present) < continuous_threshold)
              => valid_frames = {}
        /\ ListBuilt =>
              \A k \in DOMAIN files_dict :
                  (~files_dict[k].exists \/ ~files_dict[k].readable)
                      => k \notin Counted

\* C14's case: the call returned frames from a mapping that holds a missing
\* file and a file that cannot be read.
C14_Witness ==
    /\ Done
    /\ valid_frames # {}
    /\ \E k \in DOMAIN files_dict : ~files_dict[k].exists
    /\ \E k \in DOMAIN files_dict : ReadRaises(files_dict[k])

\* The content holds a character that str.strip() keeps.
TrimmedNonEmpty(f) ==
    \E n \in 1..Len(f.content) : f.content[n] \notin Whitespace

\* C16: has_predictions returns true if and only if the file exists and its
\* content, trimmed of leading and trailing whitespace, is not empty.
C16_ExistsAndNonEmpty ==
    ListBuilt =>
        \A k \in DOMAIN files_dict :
            k \in Counted <=>
                (files_dict[k].exists /\ TrimmedNonEmpty(files_dict[k]))

\* C16 as amended: has_predictions returns true if and only if the file
\* exists, can be read, and its trimmed content is not empty.
C16_ExistsReadableNonEmpty ==
    ListBuilt =>
        \A k \in DOMAIN files_dict :
            k \in Counted <=>
                (/\ files_dict[k].exists
                 /\ files_dict[k].readable
                 /\ TrimmedNonEmpty(files_dict[k]))

\* C16's case: has_predictions was applied to a readable file that holds
\* nothing but whitespace, and did not count its frame.
C16_Witness ==
    /\ ListBuilt
    /\ \E k \in DOMAIN files_dict :
          /\ files_dict[k].exists
          /\ files_dict[k].readable
          /\ Len(files_dict[k].content) = MaxContentLen
          /\ ~TrimmedNonEmpty(files_dict[k])
          /\ k \notin Counted

\* The run of digits that ends right before a final ".txt", or <<>>.
RunBeforeTxt(name) ==
    LET last == Len(name) - Len(DotTxt)
    IN  IF /\ last >= 1
           /\ SubSeq(name, last + 1, Len(name)) = DotTxt
           /\ name[last] \in Digits
        THEN LET first == CHOOSE b \in 1..last :
                              /\ \A n \in b..last : name[n] \in Digits
                              /\ (b = 1 \/ name[b - 1] \notin Digits)
             IN  SubSeq(name, first, last)
        ELSE <<>>

HasDigit(name) == \E n \in 1..Len(name) : name[n] \in Digits

\* The run of digits that no later digit follows.
LastRun(name) ==
    LET ends   == {e \in 1..Len(name) : name[e] \in Digits}
        last   == CHOOSE e \in ends : \A m \in ends : m <= e
        starts == {b \in 1..last : \A n \in b..last : name[n] \in Digits}
        first  == CHOOSE b \in starts : \A m \in starts : b <= m
    IN  SubSeq(name, first, last)

\* C17: extract_frame_number returns a non-negative integer or -1: the digit
\* run right before ".txt" when there is one, otherwise the last digit run of
\* the name, and -1 exactly when the name holds no digit.
C17_FrameNumber ==
    ppc = "extracted" =>
        /\ extracted >= 0 \/ extracted = 0 - 1
        /\ (extracted = 0 - 1) <=> ~HasDigit(filename)
        /\ RunBeforeTxt(filename) # <<>>
              => extracted = DecimalValue(RunBeforeTxt(filename))
        /\ (RunBeforeTxt(filename) = <<>> /\ HasDigit(filename))
              => extracted = DecimalValue(LastRun(filename))

\* C17's case: a name with two digit runs and no final ".txt" was resolved.
C17_Witness ==
    /\ ppc = "extracted"
    /\ RunBeforeTxt(filename) = <<>>
    /\ HasDigit(filename)
    /\ DecimalValue(LastRun(filename)) # FallbackNumber_first(filename)
    /\ extracted >= 0

\* The detection-present frames of a dictionary.
PresentOf(fd) == {k \in DOMAIN fd : DetectionPresent(fd[k])}

\* Every step of a call leaves the mapping and the threshold as they are.
CallKeepsArguments ==
    pc # "done" => UNCHANGED <<files_dict, continuous_threshold>>

\* C15: two calls with the same mapping and threshold return identical sets,
\* whatever the insertion order of the mapping and whatever was called
\* before on the instance; a call leaves the mapping and the threshold
\* unchanged.
C15_SameArgumentsSameResult ==
    /\ [](\A a, b \in DOMAIN returned :
             (/\ returned[a].files_dict = returned[b].files_dict
              /\ returned[a].continuous_threshold =
                    returned[b].continuous_threshold)
                 => returned[a].valid_frames = returned[b].valid_frames)
    /\ [][CallKeepsArguments]_vars

\* C15's case: the first and the third call got the same mapping, inserted
\* in different orders, and returned frames; the call in between returned
\* frames the first did not.
C15_Witness ==
    /\ Len(returned) = 3
    /\ returned[1].files_dict = returned[3].files_dict
    /\ returned[1].key_order # returned[3].key_order
    /\ returned[1].valid_frames # {}
    /\ ~(returned[2].valid_frames \subseteq returned[1].valid_frames)

\* C20: the result depends only on the set of detection-present indices:
\* two mappings with the same detection-present frames give the same set,
\* whatever detection-absent keys either holds.
C20_OnlyPresentFramesMatter ==
    \A a, b \in DOMAIN returned :
        (/\ PresentOf(returned[a].files_dict) = PresentOf(returned[b].files_dict)
         /\ returned[a].continuous_threshold = returned[b].continuous_threshold)
            => returned[a].valid_frames = returned[b].valid_frames

\* C20's case: two calls returned frames from mappings with the same
\* detection-present frames, one of which holds a detection-absent key the
\* other lacks.
C20_Witness ==
    /\ Len(returned) >= 2
    /\ returned[1].valid_frames # {}
    /\ PresentOf(returned[1].files_dict) = PresentOf(returned[2].files_dict)
    /\ DOMAIN returned[1].files_dict # DOMAIN returned[2].files_dict

\* The label files the glob listed.
Listed == {label_files[n] : n \in DOMAIN label_files}

\* The files the mapping holds.
Mapped == {files_dict[k] : k \in DOMAIN files_dict}

\* process_all is past the loop that builds the mapping.
MappingBuilt == ppc \in {"stats", "analyze", "write", "finished"}

\* The output files written under a name.
WrittenAs(name) == {n \in DOMAIN outputs : outputs[n].name = name}

\* C11: an instance whose threshold is <= 0 never reaches analyze_continuity
\* and never gets a valid-frame set from it.
C11_NonPositiveThresholdRejected ==
    continuous_threshold <= 0 => pc = "idle" /\ returned = <<>>

\* C12: at the end of process_all exactly one output file is written per
\* frame of the mapping, under the name of the frame's file: a copy of the
\* file if the frame is in the set analyze_continuity returned, an empty
\* file otherwise; nothing else is written.
C12_OneOutputPerFrame ==
    ppc = "finished" =>
        /\ Len(outputs) = Cardinality(DOMAIN files_dict)
        /\ \A k \in DOMAIN files_dict :
              /\ Cardinality(WrittenAs(files_dict[k].name)) = 1
              /\ \A n \in WrittenAs(files_dict[k].name) :
                    outputs[n].content =
                        IF k \in returned[1].valid_frames
                        THEN files_dict[k].content
                        ELSE <<>>

\* C12's case: a run wrote a copy for a frame of the returned set and an
\* empty file for a frame whose label file holds a box.
C12_Witness ==
    /\ ppc = "finished"
    /\ \E n \in DOMAIN outputs : outputs[n].content = BoxFile.content
    /\ \E k \in DOMAIN files_dict :
          /\ files_dict[k].content = BoxFile.content
          /\ \E n \in WrittenAs(files_dict[k].name) : outputs[n].content = <<>>

\* C13: a label file whose name holds no number is not in the mapping, under
\* index 0 or any other; it is in the list of files without a number; the
\* mapping analyze_continuity gets does not hold it; no output is written
\* for it.
C13_UnresolvableDropped ==
    MappingBuilt \/ ppc = "finished" =>
        \A f \in Listed :
            ~HasDigit(f.name) =>
                /\ f \notin Mapped
                /\ \E n \in DOMAIN files_without_number :
                      files_without_number[n] = f
                /\ \A r \in DOMAIN returned : \A k \in DOMAIN returned[r].files_dict :
                      returned[r].files_dict[k] # f
                /\ WrittenAs(f.name) = {}

\* C13's case: a file without a number, holding a box, was listed between
\* the files of frames 0 and 1, which came out as one run.
C13_Witness ==
    /\ ppc = "finished"
    /\ Len(label_files) = 3
    /\ ~HasDigit(label_files[2].name)
    /\ label_files[2].content = BoxFile.content
    /\ valid_frames = {0, 1}

\* C18: in one run of process_all has_predictions reads the file of each
\* frame once.
C18_EvaluatedOncePerFrame ==
    ppc = "finished" => \A k \in DOMAIN files_dict : pred_evals[k] = 1

\* The label file listed last among those of a frame.
LastOf(frame_num) ==
    LET at == {n \in DOMAIN label_files :
                  /\ HasDigit(label_files[n].name)
                  /\ DecimalValue(LastRun(label_files[n].name)) = frame_num}
    IN  label_files[CHOOSE n \in at : \A m \in at : m <= n]

\* C19: when several label files have the same frame index the mapping
\* holds the one listed last, analyze_continuity gets that mapping, and at
\* the end one output file is written for the index, under the name of the
\* file listed last; a file listed earlier gets no output.
C19_LastWins ==
    MappingBuilt =>
        /\ \A k \in DOMAIN files_dict : files_dict[k] = LastOf(k)
        /\ \A r \in DOMAIN returned : returned[r].files_dict = files_dict
        /\ ppc = "finished" =>
              \A f \in Listed :
                  Cardinality(WrittenAs(f.name)) =
                      IF HasDigit(f.name)
                            /\ f = LastOf(DecimalValue(LastRun(f.name)))
                      THEN 1 ELSE 0

\* C19's case: two files of frame 1 were listed, the earlier one with a box
\* and the later one blank, next to a file of frame 0 with a box; the run
\* ended with no frame kept.
C19_Witness ==
    /\ ppc = "finished"
    /\ 1 \in DOMAIN files_dict
    /\ \E a, b \in DOMAIN label_files :
          /\ a < b
          /\ label_files[a].name # label_files[b].name
          /\ files_dict[1] = label_files[b]
          /\ HasDigit(label_files[a].name)
          /\ DecimalValue(LastRun(label_files[a].name)) = 1
          /\ label_files[a].content = BoxFile.content
          /\ label_files[b].content = BlankFile.content
    /\ 0 \in DOMAIN files_dict
    /\ files_dict[0].content = BoxFile.content
    /\ valid_frames = {}
    /\ continuous_threshold = 2

\* C21: with backup_original every listed label file, the files without a
\* frame number included, is in the backup directory before the first
\* output file is written, and no output is written before the backup step.
C21_BackupBeforeOutput ==
    /\ outputs # <<>> => ppc \in {"write", "report", "finished"}
    /\ (backup_original /\ (outputs # <<>> \/ ppc \notin {"start"})
           /\ label_files # <<>>) =>
          \A f \in Listed :
              [name |-> f.name, content |-> f.content] \in backup_dir

\* C21's case: with backup_original an output was written while a file
\* without a frame number is listed.
C21_Witness ==
    /\ backup_original
    /\ Len(outputs) = 1
    /\ \E f \in Listed : ~HasDigit(f.name)

\* C22: at the end of process_all the three counters add up to the number of
\* frames of the mapping, kept_count is the size of the valid-frame set and
\* removed_count the number of detection-present frames outside it.
C22_Counters ==
    ppc = "finished" =>
        /\ kept_count + removed_count + no_prediction_count =
              Cardinality(DOMAIN files_dict)
        /\ kept_count = Cardinality(valid_frames)
        /\ removed_count = Cardinality(Present \ valid_frames)

\* C22's case: a run that kept frames, removed a prediction and met a frame
\* without one.
C22_Witness ==
    /\ ppc = "finished"
    /\ kept_count = 2
    /\ removed_count = 1
    /\ no_prediction_count = 1

\* The frames of the n-th reported segment.
SegmentFrames(n) == segments[n][1]..segments[n][2]

RECURSIVE SumOfLengths(_)
SumOfLengths(n) == IF n = 0 THEN 0 ELSE SumOfLengths(n - 1) + segments[n][3]

\* C23: at the end of process_all the reported segments partition the
\* valid-frame set into maximal stride-1 segments: they cover it, are
\* disjoint and maximal, their lengths are the numbers of their frames and
\* sum to the size of the set, and each length is >= the threshold.
C23_SegmentsPartition ==
    ppc = "finished" =>
        /\ UNION {SegmentFrames(n) : n \in DOMAIN segments} = valid_frames
        /\ \A n, m \in DOMAIN segments :
              n # m => SegmentFrames(n) \cap SegmentFrames(m) = {}
        /\ \A n \in DOMAIN segments :
              /\ segments[n][1] <= segments[n][2]
              /\ segments[n][1] - 1 \notin valid_frames
              /\ segments[n][2] + 1 \notin valid_frames
              /\ segments[n][3] = Cardinality(SegmentFrames(n))
              /\ segments[n][3] >= continuous_threshold
        /\ SumOfLengths(Len(segments)) = Cardinality(valid_frames)

\* C23's case: the report of a run with two segments.
C23_Witness ==
    /\ ppc = "finished"
    /\ Len(segments) = 2
    /\ continuous_threshold = 2

\* C24: filter_predictions returns None for an empty list and otherwise the
\* first, in input order, of the predictions with the greatest confidence;
\* process_single_file writes one line and returns (n, 1) for n >= 1
\* predictions read, and writes no line and returns (0, 0) for none.
C24_FirstOfTheMostConfident ==
    /\ filter_predictions(<<>>) = None
    /\ spc = "returned" =>
          IF predictions = <<>>
          THEN output_lines = <<>> /\ counts = <<0, 0>>
          ELSE /\ \E n \in DOMAIN predictions :
                     /\ best_prediction = predictions[n]
                     /\ \A m \in DOMAIN predictions :
                           /\ predictions[m].confidence <= predictions[n].confidence
                           /\ m < n => predictions[m].confidence
                                          < predictions[n].confidence
               /\ Len(output_lines) = 1
               /\ counts = <<Len(predictions), 1>>

\* C24's case: three predictions were read, the first below the confidence
\* the other two share; the second was returned.
C24_Witness ==
    /\ spc = "returned"
    /\ Len(predictions) = 3
    /\ predictions[1].confidence < predictions[2].confidence
    /\ predictions[2].confidence = predictions[3].confidence
    /\ best_prediction = predictions[2]

\* C25: the line written for the retained prediction has a confidence
\* column if and only if the line the prediction was read from has one.
C25_ConfidenceColumnKept ==
    (spc = "returned" /\ Len(output_lines) = 1) =>
        (output_lines[1].columns >= 6
            <=> label_lines[best_prediction.box].columns >= 6)

\* The members of a list.
Members(list) == {list[n] : n \in DOMAIN list}

\* C26: when train_ratio exceeds the number of folders, the training set is
\* the first total - val_ratio folders of the sorted list, the number the
\* warning states, and the validation set the folders that follow.
C26_TrainingSetAsAnnounced ==
    (mpc = "returned" /\ train_ratio > Len(patient_folders)) =>
        LET total == Len(patient_folders)
        IN  /\ announced = <<Len(train_patients)>>
            /\ train_patients = SubSeq(patient_folders, 1, total - val_ratio)
            /\ val_patients =
                  SubSeq(patient_folders, total - val_ratio + 1, total)

\* C27: the returned lists share no patient, every training patient comes
\* before every validation patient in the sorted order, and the validation
\* list has at most val_ratio members.
C27_DisjointAndOrdered ==
    mpc = "returned" =>
        /\ Members(train_patients) \cap Members(val_patients) = {}
        /\ \A t \in Members(train_patients) :
              \A v \in Members(val_patients) : t < v
        /\ Len(val_patients) <= val_ratio

\* C27's case: the split index went below zero and both lists have members.
C27_Witness ==
    /\ mpc = "returned"
    /\ split_idx < 0
    /\ train_patients # <<>>
    /\ val_patients # <<>>
====
